---- MODULE Spec2Model ----
(***************************************************************************)
(* CouponScorpionScraper (udemy_enroller/scrapers/couponscorpion.py).      *)
(*                                                                         *)
(* One scraper instance and the sequence of run() calls the pipeline makes *)
(* on it.  A run() call is one action: it is given what the outside world  *)
(* answers during that call (whether a browser session can be created,     *)
(* the listing page, each post page, each navigation and each validation)  *)
(* and computes the new fields, the returned list and the external calls   *)
(* it made, as the code does.                                              *)
(*                                                                         *)
(* The base class SeleniumBaseScraper is not part of the source at hand:   *)
(* init_driver, close_driver, is_complete, is_disabled,                    *)
(* set_state_disabled, max_pages_reached and time_run follow the           *)
(* specification's description of them.                                    *)
(***************************************************************************)
EXTENDS Integers, Sequences, FiniteSets, TLC

VARIABLES
    enabled,        \* constructor argument `enabled`
    max_pages,      \* self.max_pages (None or a ceiling)
    state,          \* scraper state: "active", "disabled", "completed"
    current_page,   \* self.current_page
    last_page,      \* self.last_page (None until discovered)
    driver,         \* self.driver: NoSession or "open"
    calls,          \* number of run() calls made so far
    lastIn,         \* what the outside world answered during the last run()
    ret,            \* outcome of the last run(): [raised, links]
    log,            \* external calls of the last run(), in order
    session,        \* self.driver as get_links saw it after init_driver()
    inits,          \* number of browser sessions ever created
    sets,           \* number of assignments to self.last_page so far
    parses,         \* number of listing fetches that succeeded so far
    first           \* the first assignment to last_page: [page, pagination, value]

vars == <<enabled, max_pages, state, current_page, last_page, driver, calls,
          lastIn, ret, log, session, inits, sets, parses, first>>

(***************************************************************************)
(* Bounds                                                                  *)
(***************************************************************************)
MaxRuns == 4        \* run() calls in one behaviour
MaxCeiling == 2     \* largest configured max_pages
MaxPosts == 2       \* articles on a listing page (SpecGather)
MaxRedirects == 2   \* button spans on a post page (SpecGather)
MaxAnchors == 2     \* anchors in the pagination control (SpecPagination)

(***************************************************************************)
(* Values                                                                  *)
(***************************************************************************)
None == -1                  \* Python None, for the optional integers
NoSession == "None"         \* self.driver is None
NoHref == "None"            \* find("a", href=True) found nothing
NoUrl == "None"             \* the validator's None
\* the class constant DOMAIN (a reserved word of TLA+)
DOMAIN_URL == "https://couponscorpion.com"

RECURSIVE Max(_)
Max(s) ==
    IF Len(s) = 1 THEN Head(s)
    ELSE LET m == Max(Tail(s)) IN IF Head(s) >= m THEN Head(s) ELSE m

Get(url) == [op |-> "GET", url |-> url]
Nav(url) == [op |-> "NAV", url |-> url]

(***************************************************************************)
(* Text of a pagination anchor: a sequence of characters.                  *)
(***************************************************************************)
Digits == {"0", "1", "2", "3", "4", "5", "6", "7", "8", "9"}

DigitValue(c) ==
    CASE c = "0" -> 0 [] c = "1" -> 1 [] c = "2" -> 2 [] c = "3" -> 3
      [] c = "4" -> 4 [] c = "5" -> 5 [] c = "6" -> 6 [] c = "7" -> 7
      [] c = "8" -> 8 [] c = "9" -> 9

RECURSIVE lstrip(_)
lstrip(t) == IF t # <<>> /\ Head(t) = " " THEN lstrip(Tail(t)) ELSE t

RECURSIVE rstrip(_)
rstrip(t) ==
    IF t # <<>> /\ t[Len(t)] = " " THEN rstrip(SubSeq(t, 1, Len(t) - 1)) ELSE t

\* str.strip()
strip(t) == rstrip(lstrip(t))

\* str.isdigit(): not empty, every character a digit
isdigit(t) == t # <<>> /\ \A i \in 1..Len(t) : t[i] \in Digits

\* int(text) of a text of digits
RECURSIVE int(_)
int(t) ==
    IF t = <<>> THEN 0
    ELSE 10 * int(SubSeq(t, 1, Len(t) - 1)) + DigitValue(t[Len(t)])

(***************************************************************************)
(* SeleniumBaseScraper, as the specification describes it                  *)
(***************************************************************************)
is_disabled(st) == st = "disabled"

is_complete(st) == st = "completed"

set_state_disabled(st) == "disabled"

\* Lazily creates the session: only when none is active and the scraper is
\* not disabled; a session that cannot be created leaves self.driver None.
init_driver(st, drv, initOK) ==
    IF drv # NoSession THEN drv
    ELSE IF is_disabled(st) THEN NoSession
    ELSE IF initOK THEN "open" ELSE NoSession

close_driver(drv) == NoSession

\* The page ceiling or the discovered last page reached: completed.
\* disabled is terminal.
max_pages_reached(st, mp, cp, lp) ==
    IF is_disabled(st) THEN st
    ELSE IF (mp # None /\ cp >= mp) \/ (lp # None /\ cp >= lp) THEN "completed"
    ELSE st

\* The timing decorator: times the call and hands its outcome on.
time_run(outcome) == outcome

(***************************************************************************)
(* CouponScorpionScraper                                                   *)
(***************************************************************************)
__init___never_disabled(en) == "active"

\* __init__: the state after construction
__init__(en) == IF ~en THEN set_state_disabled("active") ELSE "active"

\* page_url of get_links
page_url(cp) == IF cp = 1 THEN DOMAIN_URL ELSE DOMAIN_URL \o "/page/" \o ToString(cp)

\* for article in articles: a = article.find("a", href=True); if a: append
RECURSIVE article_links(_)
article_links(articles) ==
    IF articles = <<>> THEN <<>>
    ELSE IF Head(articles).href # NoHref
         THEN <<Head(articles)>> \o article_links(Tail(articles))
         ELSE article_links(Tail(articles))

\* page_numbers: the int of every anchor text that, stripped, isdigit()
RECURSIVE page_numbers(_)
page_numbers(anchors) ==
    IF anchors = <<>> THEN <<>>
    ELSE LET text == strip(Head(anchors))
         IN  IF isdigit(text)
             THEN <<int(text)>> \o page_numbers(Tail(anchors))
             ELSE page_numbers(Tail(anchors))

RECURSIVE Min(_)
Min(s) ==
    IF Len(s) = 1 THEN Head(s)
    ELSE LET m == Min(Tail(s)) IN IF Head(s) <= m THEN Head(s) ELSE m

max_or_current_min(page_nums, cp) ==
    IF page_nums # <<>> THEN Min(page_nums) ELSE cp

\* if page_numbers: max(page_numbers), else self.current_page
max_or_current(page_nums, cp) ==
    IF page_nums # <<>> THEN Max(page_nums) ELSE cp

\* The value given to self.last_page when it is None
parse_last_page(pagination, cp) ==
    IF pagination.present
    THEN max_or_current(page_numbers(pagination.anchors), cp)
    ELSE 1

_get_post_links_no_guard(cp, lp, page) ==
    IF ~page.ok
    THEN [raised |-> FALSE, links |-> <<>>, last_page |-> lp, assigned |-> FALSE,
          parsed |-> FALSE, log |-> <<Get(page_url(cp))>>]
    ELSE [raised |-> FALSE, links |-> article_links(page.articles),
          last_page |-> parse_last_page(page.pagination, cp),
          assigned |-> TRUE, parsed |-> TRUE,
          log |-> <<Get(page_url(cp))>>]

\* _get_post_links: one GET of the listing page; on any failure inside the
\* try, [] and self.last_page untouched.
_get_post_links(cp, lp, page) ==
    IF ~page.ok
    THEN [raised |-> FALSE, links |-> <<>>, last_page |-> lp, assigned |-> FALSE,
          parsed |-> FALSE, log |-> <<Get(page_url(cp))>>]
    ELSE [raised |-> FALSE, links |-> article_links(page.articles),
          last_page |-> IF lp = None THEN parse_last_page(page.pagination, cp)
                        ELSE lp,
          assigned |-> lp = None, parsed |-> TRUE,
          log |-> <<Get(page_url(cp))>>]

\* for span in spans: a = span.find("a", href=True); if a: append
RECURSIVE span_links(_)
span_links(spans) ==
    IF spans = <<>> THEN <<>>
    ELSE IF Head(spans).href # NoHref
         THEN <<Head(spans)>> \o span_links(Tail(spans))
         ELSE span_links(Tail(spans))

\* _get_coupon_redirect_links: one GET of the post page; [] on failure
_get_coupon_redirect_links(post) ==
    IF ~post.ok
    THEN [raised |-> FALSE, links |-> <<>>, log |-> <<Get(post.href)>>]
    ELSE [raised |-> FALSE, links |-> span_links(post.spans),
          log |-> <<Get(post.href)>>]

_resolve_redirect_final_url(drv, redirect) ==
    IF drv = NoSession THEN [raised |-> FALSE, url |-> NoUrl, log |-> <<>>]
    ELSE IF redirect.nav = "throws"
         THEN [raised |-> FALSE, url |-> NoUrl, log |-> <<Nav(redirect.href)>>]
    ELSE IF redirect.valid = "raises"
         THEN [raised |-> FALSE, url |-> NoUrl, log |-> <<Nav(redirect.href)>>]
    ELSE [raised |-> FALSE, url |-> redirect.final, log |-> <<Nav(redirect.href)>>]

_resolve_redirect_retry(drv, redirect) ==
    IF drv = NoSession THEN [raised |-> FALSE, url |-> NoUrl, log |-> <<>>]
    ELSE IF redirect.nav = "throws"
         THEN [raised |-> FALSE, url |-> NoUrl,
               log |-> <<Nav(redirect.href), Nav(redirect.href)>>]
    ELSE IF redirect.valid = "raises"
         THEN [raised |-> FALSE, url |-> NoUrl, log |-> <<Nav(redirect.href)>>]
    ELSE [raised |-> FALSE, url |-> redirect.valid, log |-> <<Nav(redirect.href)>>]

\* _resolve_redirect: without a driver None; else one navigation, the address
\* reached is validated; None when the navigation or the validator throws or
\* the validator returns None.
_resolve_redirect(drv, redirect) ==
    IF drv = NoSession THEN [raised |-> FALSE, url |-> NoUrl, log |-> <<>>]
    ELSE IF redirect.nav = "throws"
         THEN [raised |-> FALSE, url |-> NoUrl, log |-> <<Nav(redirect.href)>>]
    ELSE IF redirect.valid = "raises"
         THEN [raised |-> FALSE, url |-> NoUrl, log |-> <<Nav(redirect.href)>>]
    ELSE [raised |-> FALSE, url |-> redirect.valid, log |-> <<Nav(redirect.href)>>]

\* one turn of the inner loop: final_url = ...; if final_url: append
resolve_one(acc, r) ==
    [raised |-> r.raised,
     links |-> IF ~r.raised /\ r.url # NoUrl THEN Append(acc.links, r.url)
               ELSE acc.links,
     log |-> acc.log \o r.log]

\* the inner loop of gather_udemy_course_links, from accumulator acc
RECURSIVE resolve_all(_, _, _)
resolve_all(drv, redirect_links, acc) ==
    IF redirect_links = <<>> \/ acc.raised THEN acc
    ELSE resolve_all(drv, Tail(redirect_links),
             resolve_one(acc, _resolve_redirect(drv, Head(redirect_links))))

\* one turn of the outer loop: the post is fetched, its redirects resolved
gather_one(drv, acc, p) ==
    IF p.raised
    THEN [raised |-> TRUE, links |-> acc.links, log |-> acc.log \o p.log]
    ELSE resolve_all(drv, p.links,
             [raised |-> FALSE, links |-> acc.links, log |-> acc.log \o p.log])

\* the outer loop of gather_udemy_course_links, from accumulator acc
RECURSIVE gather_from(_, _, _)
gather_from(drv, post_links, acc) ==
    IF post_links = <<>> \/ acc.raised THEN acc
    ELSE gather_from(drv, Tail(post_links),
             gather_one(drv, acc, _get_coupon_redirect_links(Head(post_links))))

gather_udemy_course_links(drv, post_links) ==
    gather_from(drv, post_links, [raised |-> FALSE, links |-> <<>>, log |-> <<>>])

\* What get_links leaves: its outcome (raised, links), the fields it wrote,
\* and what it did (a session created, last_page assigned, the listing
\* parsed, the external calls).
GetLinksResult(raised, links, cp, lp, drv, created, assigned, parsed, lg) ==
    [raised |-> raised, links |-> links, current_page |-> cp, last_page |-> lp,
     driver |-> drv, created |-> created, assigned |-> assigned,
     parsed |-> parsed, log |-> lg]

\* the end of the try block of get_links: return udemy_links, or [] from
\* the except
get_links_return(cp, drv, created, pl, ul) ==
    IF ul.raised
    THEN GetLinksResult(FALSE, <<>>, cp, pl.last_page, drv, created,
                        pl.assigned, pl.parsed, pl.log \o ul.log)
    ELSE GetLinksResult(FALSE, ul.links, cp, pl.last_page, drv, created,
                        pl.assigned, pl.parsed, pl.log \o ul.log)

\* the try block of get_links after _get_post_links
get_links_gather(cp, drv, created, pl) ==
    IF pl.raised
    THEN GetLinksResult(FALSE, <<>>, cp, pl.last_page, drv, created,
                        pl.assigned, pl.parsed, pl.log)
    ELSE get_links_return(cp, drv, created, pl,
                          gather_udemy_course_links(drv, pl.links))

get_links_raise_without_driver(cp, lp, drv, created, in) ==
    IF drv = NoSession
    THEN GetLinksResult(TRUE, <<>>, cp, lp, drv, created, FALSE, FALSE, <<>>)
    ELSE get_links_gather(cp, drv, created, _get_post_links(cp, lp, in.page))

get_links_without_driver_check(cp, lp, drv, created, in) ==
    get_links_gather(cp, drv, created, _get_post_links(cp, lp, in.page))

\* get_links after init_driver(): without a driver [], else the try block
get_links_scrape(cp, lp, drv, created, in) ==
    IF drv = NoSession
    THEN GetLinksResult(FALSE, <<>>, cp, lp, drv, created, FALSE, FALSE, <<>>)
    ELSE get_links_gather(cp, drv, created, _get_post_links(cp, lp, in.page))

\* get_links after self.current_page += 1
get_links_init(self, cp, drv, in) ==
    get_links_scrape(cp, self.last_page, drv,
                     self.driver = NoSession /\ drv # NoSession, in)

get_links_count_scraped_pages(self, in) ==
    get_links_init(self,
        IF init_driver(self.state, self.driver, in.initOK) = NoSession
        THEN self.current_page ELSE self.current_page + 1,
        init_driver(self.state, self.driver, in.initOK), in)

\* get_links: count the page, make sure of the session, scrape the page.
get_links(self, in) ==
    get_links_init(self, self.current_page + 1,
                   init_driver(self.state, self.driver, in.initOK), in)

run_finally_keep_session(st, drv) == drv

\* the finally block of run
run_finally(st, drv) ==
    IF is_complete(st) \/ is_disabled(st) THEN close_driver(drv) ELSE drv

run_try_without_ceiling_check(self, g) == self.state

\* the try block of run after get_links: self.max_pages_reached(), unless
\* get_links raised
run_try(self, g) ==
    IF g.raised THEN self.state
    ELSE max_pages_reached(self.state, self.max_pages, g.current_page,
                           g.last_page)

\* What run leaves: its outcome, the fields, and what get_links did.
run_result(g, st) ==
    [raised |-> g.raised,
     links |-> IF g.raised THEN <<>> ELSE g.links,
     state |-> st,
     current_page |-> g.current_page,
     last_page |-> g.last_page,
     driver |-> run_finally(st, g.driver),
     session |-> g.driver,
     created |-> g.created, assigned |-> g.assigned,
     parsed |-> g.parsed, log |-> g.log]

\* run after get_links
run_after(self, g) == run_result(g, run_try(self, g))

\* run: get_links, then the ceiling check, then the finally block; an
\* exception of the try block passes through the finally block to the caller.
run(self, in) == time_run(run_after(self, get_links(self, in)))

(***************************************************************************)
(* What the outside world can answer during one run() call                 *)
(***************************************************************************)
\* Button spans of a post page, each with what following it gives: the
\* navigation throws; the validator rejects the address reached; the
\* validator returns the normalised address; the validator throws; the span
\* holds no anchor.
SpanThrows ==
    [href |-> "https://couponscorpion.com/out/1", nav |-> "throws",
     final |-> NoUrl, valid |-> NoUrl]
SpanRejected ==
    [href |-> "https://couponscorpion.com/out/2", nav |-> "ok",
     final |-> "https://www.udemy.com/course/x/", valid |-> NoUrl]
SpanA ==
    [href |-> "https://couponscorpion.com/out/3", nav |-> "ok",
     final |-> "https://www.udemy.com/course/a/?couponCode=A&utm_source=cs",
     valid |-> "https://www.udemy.com/course/a/?couponCode=A"]
SpanB ==
    [href |-> "https://couponscorpion.com/out/4", nav |-> "ok",
     final |-> "https://www.udemy.com/course/b/?couponCode=B",
     valid |-> "https://www.udemy.com/course/b/?couponCode=B"]
SpanValidatorRaises ==
    [href |-> "https://couponscorpion.com/out/5", nav |-> "ok",
     final |-> "about:blank", valid |-> "raises"]
SpanNoAnchor ==
    [href |-> NoHref, nav |-> "throws", final |-> NoUrl, valid |-> NoUrl]

SeqsUpTo(S, n) == UNION {[1..k -> S] : k \in 0..n}

PostHref(i) == "https://couponscorpion.com/post-" \o ToString(i)

PostFails(h) == [href |-> h, ok |-> FALSE, spans |-> <<>>]
Post(h, spans) == [href |-> h, ok |-> TRUE, spans |-> spans]

NoPagination == [present |-> FALSE, anchors |-> <<>>]
Pagination(anchors) == [present |-> TRUE, anchors |-> anchors]

PageFails == [ok |-> FALSE, articles |-> <<>>, pagination |-> NoPagination]
Page(articles, pagination) ==
    [ok |-> TRUE, articles |-> articles, pagination |-> pagination]

\* The pagination of the specification's example: "1", "2", "3", "»".
ExamplePagination == Pagination(<< <<"1">>, <<"2">>, <<"3">>, <<"»">> >>)

\* A page of two posts: the first with one redirect to a valid course
\* address, the second with none.
ExampleArticles == <<Post(PostHref(1), <<SpanA>>), Post(PostHref(2), <<>>)>>

\* A page where things fail: a post that cannot be fetched, navigations and
\* a validator that throw, a rejected address, and valid ones in between.
FailingArticles ==
    <<PostFails(PostHref(1)),
      Post(PostHref(2), <<SpanThrows, SpanB, SpanValidatorRaises>>),
      Post(PostHref(3), <<SpanRejected, SpanA>>)>>

\* A page with an article and a span without anchor, and the same post and
\* the same redirect link twice.
RepeatingArticles ==
    <<Post(NoHref, <<SpanA>>),
      Post(PostHref(1), <<SpanB, SpanNoAnchor, SpanB>>),
      Post(PostHref(1), <<SpanA>>)>>

LifecycleArticles == {<<>>, ExampleArticles, FailingArticles, RepeatingArticles}

LifecyclePaginations ==
    {NoPagination, Pagination(<<>>), Pagination(<< <<"»">>, <<>> >>),
     ExamplePagination, Pagination(<< <<" ", "2", " ">>, <<"1">> >>)}

LifecyclePages ==
    {PageFails} \cup
    {Page(a, p) : a \in LifecycleArticles, p \in LifecyclePaginations}

\* A post of a gathered page fails or holds at most `redirects` redirect
\* links out of GatherSpans.
GatherSpans == {SpanThrows, SpanRejected, SpanA, SpanB}

GatherResponses(redirects) ==
    {[ok |-> FALSE, spans |-> <<>>]} \cup
    {[ok |-> TRUE, spans |-> s] : s \in SeqsUpTo(GatherSpans, redirects)}

\* The articles "post-1" .. "post-n" answering r[1] .. r[n].
GatherArticles(n, r) ==
    [i \in 1..n |-> [href |-> PostHref(i), ok |-> r[i].ok, spans |-> r[i].spans]]

\* Every pagination control of at most `anchors` anchors out of AnchorTexts,
\* and three more.
AnchorTexts == {<<"1">>, <<"3">>, <<" ", "2", " ">>, <<"»">>}

PaginationPages(anchors) ==
    {PageFails, Page(<<>>, NoPagination), Page(<<>>, ExamplePagination),
     Page(<<>>, Pagination(<< <<"1", "0">>, <<"9">> >>))} \cup
    {Page(<<>>, Pagination(a)) : a \in SeqsUpTo(AnchorTexts, anchors)}

Inputs(pages) == {[initOK |-> i, page |-> p] : i \in BOOLEAN, p \in pages}

(***************************************************************************)
(* The scraper and the run() calls on it                                   *)
(***************************************************************************)
NoInput == [initOK |-> FALSE, page |-> PageFails]
NoFirst == [page |-> 0, pagination |-> NoPagination, value |-> None]

Init ==
    /\ enabled \in BOOLEAN
    /\ max_pages \in {None} \cup 1..MaxCeiling
    /\ state = __init__(enabled)
    /\ current_page = 0
    /\ last_page = None
    /\ driver = NoSession
    /\ calls = 0
    /\ lastIn = NoInput
    /\ ret = [raised |-> FALSE, links |-> <<>>]
    /\ log = <<>>
    /\ session = NoSession
    /\ inits = 0
    /\ sets = 0
    /\ parses = 0
    /\ first = NoFirst

Self ==
    [state |-> state, max_pages |-> max_pages, current_page |-> current_page,
     last_page |-> last_page, driver |-> driver]

\* The fields and the record of the call after a run() call that left r.
Returned(r, in) ==
    /\ state' = r.state
    /\ current_page' = r.current_page
    /\ last_page' = r.last_page
    /\ driver' = r.driver
    /\ ret' = [raised |-> r.raised, links |-> r.links]
    /\ log' = r.log
    /\ session' = r.session
    /\ inits' = inits + (IF r.created THEN 1 ELSE 0)
    /\ sets' = sets + (IF r.assigned THEN 1 ELSE 0)
    /\ parses' = parses + (IF r.parsed THEN 1 ELSE 0)
    /\ first' = IF r.assigned /\ sets = 0
                THEN [page |-> r.current_page,
                      pagination |-> in.page.pagination,
                      value |-> r.last_page]
                ELSE first
    /\ calls' = calls + 1
    /\ lastIn' = in
    /\ UNCHANGED <<enabled, max_pages>>

\* One run() call, the outside world answering `in`.
Run(in) == calls < MaxRuns /\ Returned(run(Self, in), in)

\* The pipeline calls run() again and again.
Next == \E in \in Inputs(LifecyclePages) : Run(in)

Spec == Init /\ [][Next]_vars

\* One run() call of an enabled scraper on any page within the bounds.
InitGather == Init /\ enabled /\ max_pages = None

GatherFails == \E initOK \in BOOLEAN : Run([initOK |-> initOK, page |-> PageFails])

GatherPage ==
    \E initOK \in BOOLEAN, n \in 0..MaxPosts :
        \E r \in [1..n -> GatherResponses(MaxRedirects)] :
            Run([initOK |-> initOK,
                 page |-> Page(GatherArticles(n, r), NoPagination)])

NextGather == calls = 0 /\ (GatherFails \/ GatherPage)

SpecGather == InitGather /\ [][NextGather]_vars

\* run() calls up to the first one that sets last_page, on any pagination
\* control within the bounds.
NextPagination == sets = 0 /\ \E in \in Inputs(PaginationPages(MaxAnchors)) : Run(in)

SpecPagination == InitGather /\ [][NextPagination]_vars

(***************************************************************************)
(* Properties                                                              *)
(***************************************************************************)
Count(seq, x) == Cardinality({i \in DOMAIN seq : seq[i] = x})

Articles == lastIn.page.articles

\* The articles of the last listing page that hold a link.
Linked == {i \in DOMAIN Articles : Articles[i].href # NoHref}

\* The redirect link occurrences of the last listing page: span j of post i,
\* for the linked posts whose page could be fetched.
Occurrences ==
    UNION {{<<i, j>> : j \in {k \in DOMAIN Articles[i].spans :
                                 Articles[i].spans[k].href # NoHref}} :
           i \in {k \in Linked : lastIn.page.ok /\ Articles[k].ok}}

SpanAt(p) == Articles[p[1]].spans[p[2]]

\* The occurrences whose navigation succeeded and whose address the
\* validator accepted.
Accepted ==
    {p \in Occurrences :
        SpanAt(p).nav = "ok" /\ SpanAt(p).valid \notin {NoUrl, "raises"}}

\* Post order, then redirect order.
Before(p, q) == p[1] < q[1] \/ (p[1] = q[1] /\ p[2] < q[2])

Rank(p) == 1 + Cardinality({q \in Accepted : Before(q, p)})

\* The number a pagination anchor text stands for, None when it is not
\* purely numeric.
TextValue(t) ==
    CASE t = <<"1">> -> 1
      [] t = <<"2">> -> 2
      [] t = <<"3">> -> 3
      [] t = <<"9">> -> 9
      [] t = <<" ", "2", " ">> -> 2
      [] t = <<"1", "0">> -> 10
      [] t = <<"»">> -> None
      [] t = <<>> -> None

NumericValues(pagination) ==
    {TextValue(pagination.anchors[i]) : i \in DOMAIN pagination.anchors} \ {None}

Largest(S) == CHOOSE v \in S : \A w \in S : w <= v

\* The page ceiling or the discovered last page is reached.
BoundReached ==
    \/ max_pages # None /\ current_page >= max_pages
    \/ last_page # None /\ current_page >= last_page

C2_NoSessionLeak == state \in {"completed", "disabled"} => driver = NoSession

\* A run() call that used a session and ended completed has released it.
C2_Witness ==
    /\ calls >= 2
    /\ state = "completed"
    /\ session = "open"
    /\ driver = NoSession

\* C3: a scraper constructed with enabled=False is disabled from
\* construction on, and no run() call on it creates a browser session.
C3_DisabledNeverInitialises ==
    ~enabled => /\ state = "disabled"
                /\ inits = 0
                /\ session = NoSession
                /\ driver = NoSession

\* Two run() calls on a disabled scraper, the last one at a time a session
\* could have been created.
C3_Witness == ~enabled /\ calls >= 2 /\ lastIn.initOK /\ lastIn.page.ok

\* C4: currentPage is the number of run() calls made so far: 0 at first and
\* one more with every call, whatever the call's gathering did.
C4_PageCountsCalls == current_page = calls

\* Three run() calls, the last one without a session, only one of which
\* parsed a listing page.
C4_Witness ==
    /\ calls = 3
    /\ inits = 1
    /\ parses = 1
    /\ session = NoSession
    /\ current_page = 3

\* C5: an enabled scraper is completed after a run() call exactly when the
\* configured page ceiling or the discovered last page has been reached by
\* currentPage.
C5_CompletedWhenBoundReached == enabled => (state = "completed" <=> BoundReached)

\* Without a ceiling, the scraper completed on reaching the discovered last
\* page, on its third call.
C5_Witness ==
    /\ max_pages = None
    /\ last_page = 3
    /\ current_page = 3
    /\ state = "completed"

\* C6: the list run() returns holds exactly the validator's outputs for the
\* accepted redirect link occurrences of the listing page, in post order and
\* then redirect order; nothing when no session exists.
C6_ReturnsAcceptedInOrder ==
    calls >= 1 =>
        IF session = NoSession THEN ret.links = <<>>
        ELSE /\ Len(ret.links) = Cardinality(Accepted)
             /\ \A p \in Accepted : ret.links[Rank(p)] = SpanAt(p).valid

\* Two posts of two redirects each, an accepted one after a rejected one in
\* the first and before a throwing one in the second.
C6_Witness ==
    /\ session = "open"
    /\ lastIn.page.ok
    /\ Len(Articles) = 2
    /\ Articles[1].spans = <<SpanRejected, SpanA>>
    /\ Articles[2].spans = <<SpanB, SpanThrows>>
    /\ ret.links = <<SpanA.valid, SpanB.valid>>

\* C7: lastPage is None until the first listing fetch that succeeds, is
\* assigned exactly once, in that call, and keeps that value.
C7_LastPageSetOnce ==
    /\ parses = 0 => (last_page = None /\ sets = 0)
    /\ parses >= 1 => (last_page # None /\ sets = 1 /\ last_page = first.value)

\* A failed listing fetch, then the first parse, then a parse of a page
\* with another pagination control.
C7_Witness ==
    /\ parses >= 2
    /\ first.page = 2
    /\ lastIn.page.ok
    /\ session = "open"
    /\ lastIn.page.pagination = ExamplePagination
    /\ first.pagination = Pagination(<< <<" ", "2", " ">>, <<"1">> >>)

\* C8 as claimed: the first value of lastPage is the largest purely numeric
\* anchor, and the current page when there is no pagination control or no
\* numeric anchor.
C8_Claimed ==
    sets >= 1 =>
        first.value =
            IF first.pagination.present /\ NumericValues(first.pagination) # {}
            THEN Largest(NumericValues(first.pagination))
            ELSE first.page

\* C8 amended: the first value of lastPage is the largest purely numeric
\* anchor; the current page when the pagination control has no numeric
\* anchor; 1 when there is no pagination control.
C8_LastPageValue ==
    sets >= 1 =>
        /\ last_page = first.value
        /\ first.value =
               IF ~first.pagination.present THEN 1
               ELSE IF NumericValues(first.pagination) # {}
                    THEN Largest(NumericValues(first.pagination))
                    ELSE first.page

\* The first successful parse happened on page 2, on the anchors "1", "2",
\* "3", "»".
C8_Witness ==
    /\ sets = 1
    /\ first.page = 2
    /\ first.pagination = ExamplePagination
    /\ last_page = 3

\* C9: a run() call in which no browser session exists returns an empty
\* list, makes no fetch and no navigation, leaves lastPage as it was and
\* increases currentPage by 1.
C9_NoSessionNoScrape ==
    [][session' = NoSession =>
          /\ ~ret'.raised
          /\ ret'.links = <<>>
          /\ log' = <<>>
          /\ last_page' = last_page
          /\ sets' = sets
          /\ current_page' = current_page + 1]_vars

\* An enabled scraper without a session in a call whose listing page had
\* posts and a pagination control, lastPage not discovered yet.
C9_Witness ==
    /\ enabled
    /\ calls >= 2
    /\ session = NoSession
    /\ lastIn.page.ok
    /\ Articles = ExampleArticles
    /\ lastIn.page.pagination = ExamplePagination
    /\ last_page = None

\* C10: nothing is retried, and every call scrapes the next page: a run()
\* call with a session fetches the listing page of its number once, each
\* post link once and navigates to each redirect link occurrence once,
\* whether they fail or not.
C10_NoRetry ==
    calls >= 1 =>
        IF session = NoSession THEN log = <<>>
        ELSE /\ log[1] = Get(page_url(calls))
             /\ Count(log, Get(page_url(calls))) = 1
             /\ \A i \in {k \in Linked : lastIn.page.ok} :
                    Count(log, Get(Articles[i].href)) =
                    Cardinality({k \in Linked : Articles[k].href = Articles[i].href})
             /\ \A p \in Occurrences :
                    Count(log, Nav(SpanAt(p).href)) =
                    Cardinality({q \in Occurrences : SpanAt(q).href = SpanAt(p).href})
             /\ Len(log) = 1 + Cardinality(Occurrences) +
                           (IF lastIn.page.ok THEN Cardinality(Linked) ELSE 0)

\* After a call that failed, a call on a page where a post fetch fails and
\* navigations throw.
C10_Witness ==
    /\ calls = 2
    /\ parses = 1
    /\ session = "open"
    /\ lastIn.page.ok
    /\ Articles = FailingArticles
    /\ Len(log) = 9

====
